---------------------------- MODULE Spec2Model ----------------------------
(***************************************************************************)
(* Model of pomodoro-tui: the App session record (src/src/app.rs), its key *)
(* handler check_keys, its tick handler on_tick and the control loop run.  *)
(*                                                                         *)
(* App fields are usize in the source.  No counter of the model comes near *)
(* 2^64 (every run is cut at MaxPomodoros completed pomodoros), so the     *)
(* fields are modelled as naturals.  Failures of the terminal (the `?` of  *)
(* draw, poll and read) end the loop without touching App and are left     *)
(* out.                                                                    *)
(***************************************************************************)
EXTENDS Integers, Sequences, FiniteSets, TLC

(***************************************************************************)
(* Bounds of the model.                                                    *)
(***************************************************************************)
MaxDuration == 2
MaxThreshold == 2
MaxPomodoros == 4
MaxTrace == 3

VARIABLES
    app,              \* the App record
    pc,               \* position of run: "poll", "after_keys", "after_timeout", "exit"
    due,              \* run: last_tick.elapsed() >= tick_rate, as tested at line 88
    cues,             \* number of play_timer_sound calls made so far
    audio,            \* number of spawned audio threads at each position
    lastEvent,        \* history: the last handler that ran
    trace,            \* history: the commands handled since construction
    ticksSinceStart,  \* history: ticks since Space started a fresh App
    backElapsed,      \* history: elapsed_seconds at the last Esc from Pomodoro
    quitSnap          \* history: the App before the q that opened the Quit screen

vars == <<app, pc, due, cues, audio, lastEvent, trace, ticksSinceStart, backElapsed, quitSnap>>

Screens == {"Main", "Pomodoro", "Quit"}
Pomodoros == {"Pomodoro", "ShortBreak", "LongBreak"}

(***************************************************************************)
(* Construction.                                                           *)
(***************************************************************************)
App_new(pomodoro_time, short_break_time, long_break_time, short_breaks_before_long) ==
    [ is_running |-> TRUE,
      is_pomodoro_running |-> FALSE,
      current_screen |-> "Main",
      current_type |-> "Pomodoro",
      pomodoro_time |-> pomodoro_time,
      short_break_time |-> short_break_time,
      long_break_time |-> long_break_time,
      pomdoros |-> 0,
      short_breaks |-> 0,
      long_breaks |-> 0,
      short_breaks_before_long |-> short_breaks_before_long,
      elapsed_seconds |-> 0 ]

App_default ==
    [ is_running |-> TRUE,
      is_pomodoro_running |-> FALSE,
      current_screen |-> "Main",
      current_type |-> "Pomodoro",
      pomodoro_time |-> 20 * 60,
      short_break_time |-> 5 * 60,
      long_break_time |-> 15 * 60,
      pomdoros |-> 0,
      short_breaks |-> 0,
      long_breaks |-> 0,
      short_breaks_before_long |-> 2,
      elapsed_seconds |-> 0 ]

\* The App as it was constructed, recovered from the fields no handler writes.
Fresh(a) ==
    App_new(a.pomodoro_time, a.short_break_time, a.long_break_time,
            a.short_breaks_before_long)

(***************************************************************************)
(* Input events read by check_keys.                                        *)
(***************************************************************************)
KeyCodes == {"q", "Space", "Esc", "x"}

Events ==
    {[kind |-> k, code |-> c] : k \in {"Press", "Release"}, c \in KeyCodes}
        \cup {[kind |-> "Resize", code |-> "-"]}

\* The command an event stands for: the key of a press check_keys has an arm
\* for, and "none" for everything it ignores.
Command(ev) ==
    IF ev.kind = "Press" /\ ev.code \in {"q", "Space", "Esc"} THEN ev.code ELSE "none"

(***************************************************************************)
(* check_keys, one operator per arm of `match key.code`.                   *)
(***************************************************************************)
\* key_q without the Pomodoro arm: the timer is left running on the Quit screen
key_q_no_pause(a) ==
    LET b == CASE a.current_screen = "Quit" -> [a EXCEPT !.is_running = FALSE]
               [] OTHER -> a
    IN  [b EXCEPT !.current_screen = "Quit"]

key_q(a) ==
    LET b == CASE a.current_screen = "Quit" -> [a EXCEPT !.is_running = FALSE]
               [] a.current_screen = "Pomodoro" -> [a EXCEPT !.is_pomodoro_running = FALSE]
               [] OTHER -> a
    IN  [b EXCEPT !.current_screen = "Quit"]

\* key_space whose Main arm starts the interval over
key_space_restart(a) ==
    CASE a.current_screen = "Main" ->
            [a EXCEPT !.current_screen = "Pomodoro", !.is_pomodoro_running = TRUE,
                      !.elapsed_seconds = 0]
      [] a.current_screen = "Pomodoro" ->
            [a EXCEPT !.is_pomodoro_running = ~a.is_pomodoro_running]
      [] OTHER -> a

key_space(a) ==
    CASE a.current_screen = "Main" ->
            [a EXCEPT !.current_screen = "Pomodoro", !.is_pomodoro_running = TRUE]
      [] a.current_screen = "Pomodoro" ->
            [a EXCEPT !.is_pomodoro_running = ~a.is_pomodoro_running]
      [] OTHER -> a

\* key_esc whose Quit arm ends the application instead of cancelling
key_esc_quits(a) ==
    CASE a.current_screen = "Pomodoro" ->
            [a EXCEPT !.is_pomodoro_running = FALSE, !.current_screen = "Main"]
      [] a.current_screen = "Quit" ->
            [a EXCEPT !.is_running = FALSE, !.current_screen = "Main"]
      [] OTHER -> a

\* key_esc whose Quit arm returns to the timer screen instead of Main
key_esc_to_timer(a) ==
    CASE a.current_screen = "Pomodoro" ->
            [a EXCEPT !.is_pomodoro_running = FALSE, !.current_screen = "Main"]
      [] a.current_screen = "Quit" ->
            [a EXCEPT !.current_screen = "Pomodoro"]
      [] OTHER -> a

\* key_esc whose Pomodoro arm opens the Quit screen instead of Main
key_esc_to_quit(a) ==
    CASE a.current_screen = "Pomodoro" ->
            [a EXCEPT !.is_pomodoro_running = FALSE, !.current_screen = "Quit"]
      [] a.current_screen = "Quit" ->
            [a EXCEPT !.current_screen = "Main"]
      [] OTHER -> a

\* key_esc whose Pomodoro arm also drops the elapsed time of the interval
key_esc_reset(a) ==
    CASE a.current_screen = "Pomodoro" ->
            [a EXCEPT !.is_pomodoro_running = FALSE, !.current_screen = "Main",
                      !.elapsed_seconds = 0]
      [] a.current_screen = "Quit" ->
            [a EXCEPT !.current_screen = "Main"]
      [] OTHER -> a

\* key_esc whose Quit arm sets the timer running again
key_esc_resume(a) ==
    CASE a.current_screen = "Pomodoro" ->
            [a EXCEPT !.is_pomodoro_running = FALSE, !.current_screen = "Main"]
      [] a.current_screen = "Quit" ->
            [a EXCEPT !.is_pomodoro_running = TRUE, !.current_screen = "Main"]
      [] OTHER -> a

key_esc(a) ==
    CASE a.current_screen = "Pomodoro" ->
            [a EXCEPT !.is_pomodoro_running = FALSE, !.current_screen = "Main"]
      [] a.current_screen = "Quit" ->
            [a EXCEPT !.current_screen = "Main"]
      [] OTHER -> a

\* check_keys without the test for KeyEventKind::Release
check_keys_on_release(a, ev) ==
    IF ev.kind \notin {"Press", "Release"} THEN a
    ELSE CASE ev.code = "q" -> key_q(a)
           [] ev.code = "Space" -> key_space(a)
           [] ev.code = "Esc" -> key_esc(a)
           [] OTHER -> a

check_keys(a, ev) ==
    IF ev.kind \notin {"Press", "Release"} THEN a
    ELSE IF ev.kind = "Release" THEN a
    ELSE CASE ev.code = "q" -> key_q(a)
           [] ev.code = "Space" -> key_space(a)
           [] ev.code = "Esc" -> key_esc(a)
           [] OTHER -> a

(***************************************************************************)
(* on_tick.                                                                *)
(***************************************************************************)
\* tick_elapsed without the is_pomodoro_running test
tick_elapsed_always(a) ==
    [a EXCEPT !.elapsed_seconds = a.elapsed_seconds + 1]

\* tick_elapsed that never counts
tick_elapsed_never(a) == a

\* lines 239-241: the increment under is_pomodoro_running
tick_elapsed(a) ==
    IF a.is_pomodoro_running
        THEN [a EXCEPT !.elapsed_seconds = a.elapsed_seconds + 1]
        ELSE a

\* next_break one short break early
next_break_early(a) ==
    IF a.short_breaks + 1 = a.short_breaks_before_long THEN "LongBreak" ELSE "ShortBreak"

\* next_break with > for ==
next_break_past(a) ==
    IF a.short_breaks > a.short_breaks_before_long THEN "LongBreak" ELSE "ShortBreak"

\* lines 249-253: the kind of break that follows a pomodoro
next_break(a) ==
    IF a.short_breaks = a.short_breaks_before_long THEN "LongBreak" ELSE "ShortBreak"

\* tick_pomodoro with > for >=
tick_pomodoro_late(a) ==
    IF a.elapsed_seconds > a.pomodoro_time
        THEN [a EXCEPT !.pomdoros = a.pomdoros + 1,
                       !.elapsed_seconds = 0,
                       !.current_type = next_break(a)]
        ELSE a

tick_pomodoro(a) ==
    IF a.elapsed_seconds >= a.pomodoro_time
        THEN [a EXCEPT !.pomdoros = a.pomdoros + 1,
                       !.elapsed_seconds = 0,
                       !.current_type = next_break(a)]
        ELSE a

\* tick_short_break that does not count the break
tick_short_break_uncounted(a) ==
    IF a.elapsed_seconds >= a.short_break_time
        THEN [a EXCEPT !.elapsed_seconds = 0,
                       !.current_type = "Pomodoro"]
        ELSE a

\* tick_short_break with > for >=
tick_short_break_late(a) ==
    IF a.elapsed_seconds > a.short_break_time
        THEN [a EXCEPT !.short_breaks = a.short_breaks + 1,
                       !.elapsed_seconds = 0,
                       !.current_type = "Pomodoro"]
        ELSE a

tick_short_break(a) ==
    IF a.elapsed_seconds >= a.short_break_time
        THEN [a EXCEPT !.short_breaks = a.short_breaks + 1,
                       !.elapsed_seconds = 0,
                       !.current_type = "Pomodoro"]
        ELSE a

\* tick_long_break that starts the count of short breaks over
tick_long_break_restart(a) ==
    IF a.elapsed_seconds >= a.long_break_time
        THEN [a EXCEPT !.long_breaks = a.long_breaks + 1,
                       !.short_breaks = 0,
                       !.elapsed_seconds = 0,
                       !.current_type = "Pomodoro"]
        ELSE a

\* tick_long_break that counts the break as a short one
tick_long_break_as_short(a) ==
    IF a.elapsed_seconds >= a.long_break_time
        THEN [a EXCEPT !.short_breaks = a.short_breaks + 1,
                       !.elapsed_seconds = 0,
                       !.current_type = "Pomodoro"]
        ELSE a

tick_long_break(a) ==
    IF a.elapsed_seconds >= a.long_break_time
        THEN [a EXCEPT !.long_breaks = a.long_breaks + 1,
                       !.elapsed_seconds = 0,
                       !.current_type = "Pomodoro"]
        ELSE a

on_tick(a) ==
    LET b == tick_elapsed(a)
    IN  CASE b.current_type = "Pomodoro" -> tick_pomodoro(b)
          [] b.current_type = "ShortBreak" -> tick_short_break(b)
          [] b.current_type = "LongBreak" -> tick_long_break(b)

\* plays_sound at the end of every interval
plays_sound_any(a) ==
    LET b == tick_elapsed(a)
    IN  b # on_tick(a) /\ on_tick(a).current_type # b.current_type

\* line 245: on_tick calls play_timer_sound exactly in the completing
\* Pomodoro arm.
plays_sound(a) ==
    LET b == tick_elapsed(a)
    IN  b.current_type = "Pomodoro" /\ b.elapsed_seconds >= b.pomodoro_time

(***************************************************************************)
(* play_timer_sound (src/src/sound.rs).  The call spawns a thread and      *)
(* returns; the closure captures nothing of App.  Each of the four unwraps *)
(* can panic, which ends that thread only.  Threads are anonymous, so the  *)
(* model counts the threads at each position.                              *)
(***************************************************************************)
AudioPcs == {"stream", "file", "decode", "play", "sleep", "done", "panicked"}
Unwraps == {"stream", "file", "decode", "play"}

\* line 7: thread::spawn, the new thread is about to run line 8
play_timer_sound(au) == [au EXCEPT !["stream"] = au["stream"] + 1]

\* lines 8-14 in order
audio_next(p) ==
    CASE p = "stream" -> "file"
      [] p = "file" -> "decode"
      [] p = "decode" -> "play"
      [] p = "play" -> "sleep"
      [] p = "sleep" -> "done"

audio_move(au, p, q) == [au EXCEPT ![p] = au[p] - 1, ![q] = au[q] + 1]

(***************************************************************************)
(* The control loop, run.  One iteration: poll for an event; if one came,  *)
(* check_keys; then on_tick if a tick period has passed since last_tick;   *)
(* then the loop test.  A poll that times out has waited until the tick is *)
(* due.  An event can arrive before the period has passed or, with a       *)
(* timeout of zero, after it: a key event leaves due either way.           *)
(***************************************************************************)
loop_test(a) == IF a.is_running THEN "poll" ELSE "exit"

\* History kept by a key event.
KeyHistory(ev) ==
    /\ lastEvent' = Command(ev)
    /\ trace' = IF trace # <<"-">> /\ Len(trace) < MaxTrace
                    THEN Append(trace, Command(ev))
                    ELSE <<"-">>
    /\ ticksSinceStart' =
            IF Command(ev) = "Space" /\ app = Fresh(app) THEN 0 ELSE -1
    /\ backElapsed' =
            IF app.current_screen = "Pomodoro"
                THEN (IF Command(ev) = "Esc" THEN app.elapsed_seconds ELSE -1)
                ELSE backElapsed
    /\ quitSnap' =
            IF Command(ev) = "q" /\ app.current_screen # "Quit" THEN <<app>>
            ELSE IF Command(ev) = "Esc" /\ app.current_screen = "Quit" THEN quitSnap
            ELSE <<>>

\* History kept by a tick.
TickHistory ==
    /\ lastEvent' = "tick"
    /\ trace' = <<"-">>
    /\ ticksSinceStart' = IF ticksSinceStart >= 0 THEN ticksSinceStart + 1 ELSE -1
    /\ backElapsed' = IF app.current_screen = "Pomodoro" THEN -1 ELSE backElapsed
    /\ quitSnap' = <<>>

\* lines 85-87: an event arrived within the timeout
Keys(ev) ==
    /\ pc = "poll"
    /\ app' = check_keys(app, ev)
    /\ pc' = "after_keys"
    /\ due' \in BOOLEAN
    /\ cues' = cues
    /\ audio' = audio
    /\ KeyHistory(ev)

\* lines 84-85: no event within the timeout, which is what is left of the
\* tick period; when poll returns the period has passed
Timeout ==
    /\ pc = "poll"
    /\ pc' = "after_timeout"
    /\ due' = TRUE
    /\ UNCHANGED <<app, cues, audio, lastEvent, trace, ticksSinceStart, backElapsed,
                   quitSnap>>

\* lines 88-91 with the tick due, then the loop test of line 82
Tick ==
    /\ pc \in {"after_keys", "after_timeout"}
    /\ due
    /\ app.pomdoros < MaxPomodoros
    /\ due' = FALSE
    /\ app' = on_tick(app)
    /\ cues' = IF plays_sound(app) THEN cues + 1 ELSE cues
    /\ audio' = IF plays_sound(app) THEN play_timer_sound(audio) ELSE audio
    /\ pc' = loop_test(app)
    /\ TickHistory

\* NoTick taken whenever a key event was handled, as with `else if` at line 88
NoTick_after_any_key ==
    /\ pc = "after_keys"
    /\ due' = FALSE
    /\ pc' = loop_test(app)
    /\ UNCHANGED <<app, cues, audio, lastEvent, trace, ticksSinceStart, backElapsed, quitSnap>>

\* lines 88 with the tick not due, then the loop test of line 82
NoTick ==
    /\ pc = "after_keys"
    /\ ~due
    /\ due' = FALSE
    /\ pc' = loop_test(app)
    /\ UNCHANGED <<app, cues, audio, lastEvent, trace, ticksSinceStart, backElapsed, quitSnap>>

History0 ==
    /\ lastEvent = "init"
    /\ trace = <<>>
    /\ ticksSinceStart = -1
    /\ backElapsed = -1
    /\ quitSnap = <<>>

\* An audio thread at p completes the statement it is at.  The threads end
\* with the process, so none moves after run has returned.
AudioOk(p) ==
    /\ pc # "exit"
    /\ p \in Unwraps \cup {"sleep"}
    /\ audio[p] > 0
    /\ audio' = audio_move(audio, p, audio_next(p))
    /\ UNCHANGED <<app, pc, due, cues, lastEvent, trace, ticksSinceStart,
                   backElapsed, quitSnap>>

\* AudioPanic as it would be with the closure run on the thread of run: the
\* panic unwinds through on_tick and ends the loop
AudioPanic_unwinds(p) ==
    /\ pc # "exit"
    /\ p \in Unwraps
    /\ audio[p] > 0
    /\ audio' = audio_move(audio, p, "panicked")
    /\ pc' = "exit"
    /\ UNCHANGED <<app, due, cues, lastEvent, trace, ticksSinceStart,
                   backElapsed, quitSnap>>

\* An audio thread at one of the unwraps panics: the thread ends, nothing else
\* is told.
AudioPanic(p) ==
    /\ pc # "exit"
    /\ p \in Unwraps
    /\ audio[p] > 0
    /\ audio' = audio_move(audio, p, "panicked")
    /\ UNCHANGED <<app, pc, due, cues, lastEvent, trace, ticksSinceStart,
                   backElapsed, quitSnap>>

Durations == 0..MaxDuration
Thresholds == 0..MaxThreshold

Init ==
    /\ \E p \in Durations, s \in Durations, l \in Durations, n \in Thresholds :
            app = App_new(p, s, l, n)
    /\ pc = "poll"
    /\ due = FALSE
    /\ cues = 0
    /\ audio = [p \in AudioPcs |-> 0]
    /\ History0

\* main: App::default()
InitDefault ==
    /\ app = App_default
    /\ pc = "poll"
    /\ due = FALSE
    /\ cues = 0
    /\ audio = [p \in AudioPcs |-> 0]
    /\ History0

Next ==
    \/ \E ev \in Events : Keys(ev)
    \/ Timeout
    \/ Tick
    \/ NoTick

\* The control loop together with the audio threads it has spawned.
InitAudio ==
    /\ \E n \in Thresholds : app = App_new(1, 1, 1, n)
    /\ pc = "poll"
    /\ due = FALSE
    /\ cues = 0
    /\ audio = [p \in AudioPcs |-> 0]
    /\ History0

NextAudio ==
    \/ Next
    \/ \E p \in AudioPcs : AudioOk(p)
    \/ \E p \in AudioPcs : AudioPanic(p)

Spec == Init /\ [][Next]_vars

\* The loop keeps turning: poll returns at the latest when the timeout ends,
\* and the test of line 88 and the loop test follow at once.
InitLive ==
    /\ \E p \in Durations, b \in Durations, n \in Thresholds :
            app = App_new(p, b, b, n)
    /\ pc = "poll"
    /\ due = FALSE
    /\ cues = 0
    /\ audio = [q \in AudioPcs |-> 0]
    /\ History0

SpecLive ==
    InitLive /\ [][Next]_vars /\ WF_vars(Timeout) /\ WF_vars(Tick) /\ WF_vars(NoTick)

SpecAudio == InitAudio /\ [][NextAudio]_vars

SpecDefault == InitDefault /\ [][Next]_vars

(***************************************************************************)
(* Steps named by the properties below.                                    *)
(***************************************************************************)
KeyStep == \E ev \in Events : Keys(ev)
QuitPress == Keys([kind |-> "Press", code |-> "q"])
FocusCompletes == app'.pomdoros = app.pomdoros + 1

\* C1: on the tick that completes a Pomodoro interval, current_type becomes
\* LongBreak if short_breaks equals short_breaks_before_long at that tick, and
\* ShortBreak if it does not.
C1_LongBreakCadence ==
    [][FocusCompletes =>
        /\ Tick
        /\ app.current_type = "Pomodoro"
        /\ (app.short_breaks = app.short_breaks_before_long
                => app'.current_type = "LongBreak")
        /\ (app.short_breaks # app.short_breaks_before_long
                => app'.current_type = "ShortBreak")]_vars

C1_Witness ==
    /\ lastEvent = "tick"
    /\ app.current_type = "LongBreak"
    /\ app.elapsed_seconds = 0
    /\ app.short_breaks >= 1
    /\ app.long_breaks = 0

\* C2 as stated: once a long break has completed, no later completion of a
\* Pomodoro interval starts a LongBreak.
C2_NoSecondLongBreak ==
    [][app.long_breaks >= 1 /\ FocusCompletes
            => app'.current_type # "LongBreak"]_vars

\* C2 amended: once a long break has completed, short_breaks stays equal to
\* short_breaks_before_long and every later completion of a Pomodoro interval
\* starts a LongBreak again.
C2_LongBreakEveryTime ==
    [][app.long_breaks >= 1 =>
        /\ app'.short_breaks = app'.short_breaks_before_long
        /\ (FocusCompletes => app'.current_type = "LongBreak")]_vars

C2_Witness ==
    /\ lastEvent = "tick"
    /\ app.long_breaks >= 1
    /\ app.current_type = "LongBreak"
    /\ app.short_breaks >= 1

\* C3: a default App started by Space from Main and then only ticked has,
\* after k < 1200 ticks, pomdoros = 0, current_type = Pomodoro and
\* elapsed_seconds = k, and after exactly 1200 ticks pomdoros = 1,
\* elapsed_seconds = 0 and current_type = ShortBreak.
C3_FirstPomodoro ==
    /\ (ticksSinceStart >= 0 /\ ticksSinceStart < 1200 =>
            /\ app.pomdoros = 0
            /\ app.current_type = "Pomodoro"
            /\ app.elapsed_seconds = ticksSinceStart)
    /\ (ticksSinceStart = 1200 =>
            /\ app.pomdoros = 1
            /\ app.elapsed_seconds = 0
            /\ app.current_type = "ShortBreak")

C3_Witness ==
    /\ ticksSinceStart = 1200
    /\ app.pomdoros = 1
    /\ app.pomodoro_time = 1200

\* C4: elapsed_seconds grows only in a tick taken with is_pomodoro_running
\* true on the Pomodoro screen, and then by exactly 1; a tick with
\* is_pomodoro_running true that completes no interval adds exactly 1; no key
\* event makes it grow.
C4_ElapsedOnlyByActiveTick ==
    [][/\ (app'.elapsed_seconds > app.elapsed_seconds =>
                /\ Tick
                /\ app.is_pomodoro_running
                /\ app.current_screen = "Pomodoro"
                /\ app'.elapsed_seconds = app.elapsed_seconds + 1)
       /\ (Tick /\ app.is_pomodoro_running /\ app'.current_type = app.current_type
                => app'.elapsed_seconds = app.elapsed_seconds + 1)
       /\ (KeyStep => ~(app'.elapsed_seconds > app.elapsed_seconds))]_vars

C4_Witness ==
    /\ lastEvent = "tick"
    /\ app.elapsed_seconds >= 1
    /\ app.is_pomodoro_running

\* C5: is_pomodoro_running is true only on the Pomodoro screen.
C5_ActiveOnlyOnTimer ==
    app.is_pomodoro_running => app.current_screen = "Pomodoro"

C5_Witness ==
    /\ app.current_screen = "Quit"
    /\ lastEvent = "q"
    /\ quitSnap # <<>>
    /\ quitSnap[1].is_pomodoro_running
    /\ app.elapsed_seconds >= 1

\* C6: a step that changes current_type leaves elapsed_seconds = 0 and adds
\* exactly 1 to the counter of the kind that ended and nothing to the other
\* two; a step that keeps current_type changes no counter and does not take
\* elapsed_seconds from a non-zero value to 0.
C6_AtomicTransition ==
    [][/\ (app'.current_type # app.current_type =>
                /\ app'.elapsed_seconds = 0
                /\ app'.pomdoros = app.pomdoros
                        + (IF app.current_type = "Pomodoro" THEN 1 ELSE 0)
                /\ app'.short_breaks = app.short_breaks
                        + (IF app.current_type = "ShortBreak" THEN 1 ELSE 0)
                /\ app'.long_breaks = app.long_breaks
                        + (IF app.current_type = "LongBreak" THEN 1 ELSE 0))
       /\ (app'.current_type = app.current_type =>
                /\ app'.pomdoros = app.pomdoros
                /\ app'.short_breaks = app.short_breaks
                /\ app'.long_breaks = app.long_breaks
                /\ ~(app.elapsed_seconds # 0 /\ app'.elapsed_seconds = 0))]_vars

C6_Witness ==
    /\ lastEvent = "tick"
    /\ app.current_type = "Pomodoro"
    /\ app.elapsed_seconds = 0
    /\ app.long_breaks >= 1
    /\ app.short_breaks >= 1

\* C7: every q pressed on the Quit screen sets is_running to false; is_running
\* goes from true to false in no other step; once false it stays false.
C7_RunningClearedOnlyByConfirmedQuit ==
    [][/\ (QuitPress /\ app.current_screen = "Quit" => ~app'.is_running)
       /\ (app.is_running /\ ~app'.is_running
                => QuitPress /\ app.current_screen = "Quit")
       /\ (~app.is_running => ~app'.is_running)]_vars

C7_Witness ==
    /\ ~app.is_running
    /\ pc = "exit"
    /\ lastEvent = "tick"
    /\ app.pomdoros >= 1

\* C8: q pressed on Main followed at once by Esc gives back the App as it was
\* before the q, on Main and with is_running true.
C8_CancelledQuitFromMain ==
    (/\ lastEvent = "Esc"
     /\ quitSnap # <<>>
     /\ quitSnap[1].current_screen = "Main")
        => /\ app = quitSnap[1]
           /\ app.current_screen = "Main"
           /\ app.is_running

C8_Witness ==
    /\ lastEvent = "Esc"
    /\ quitSnap # <<>>
    /\ quitSnap[1].current_screen = "Main"
    /\ app.elapsed_seconds >= 1
    /\ app.pomdoros >= 1

\* The App one Space after construction.
Started(a) ==
    [Fresh(a) EXCEPT !.current_screen = "Pomodoro", !.is_pomodoro_running = TRUE]

\* C9: Space, Esc, Space on a new App, with no tick in between, gives the
\* same App, field by field, as a single Space on a new App.
C9_ToggleBackToggle ==
    /\ (trace = <<"Space">> => app = Started(app))
    /\ (trace = <<"Space", "Esc", "Space">> => app = Started(app))

C9_Witness ==
    /\ trace = <<"Space", "Esc", "Space">>
    /\ app.pomodoro_time >= 1

\* C10 as stated: Space on Main after an Esc from the Pomodoro screen enters
\* the Pomodoro screen with elapsed_seconds = 0.
C10_BackDiscardsElapsed ==
    (app.current_screen = "Pomodoro" /\ backElapsed >= 0)
        => app.elapsed_seconds = 0

\* C10 amended: Esc from the Pomodoro screen keeps elapsed_seconds; Space on
\* Main afterwards enters the Pomodoro screen running, with elapsed_seconds
\* equal to its value at the Esc.
C10_BackKeepsElapsed ==
    (app.current_screen = "Pomodoro" /\ backElapsed >= 0)
        => /\ app.elapsed_seconds = backElapsed
           /\ app.is_pomodoro_running
           /\ lastEvent = "Space"

C10_Witness ==
    /\ app.current_screen = "Pomodoro"
    /\ backElapsed >= 1
    /\ app.elapsed_seconds = backElapsed

\* C11 as stated: Esc on a Quit screen that q opened from the Pomodoro screen
\* gives is_pomodoro_running the value it had before the q.
C11_BackResumesTimer ==
    (/\ lastEvent = "Esc"
     /\ quitSnap # <<>>
     /\ quitSnap[1].current_screen = "Pomodoro")
        => app.is_pomodoro_running = quitSnap[1].is_pomodoro_running

\* C11 amended: q on the Pomodoro screen opens the Quit screen with
\* is_pomodoro_running false, and Esc there does not set it back: it leads to
\* Main with is_pomodoro_running false, whatever its value before the q, and
\* with every other field as before the q.
C11_BackLeavesTimerPaused ==
    (quitSnap # <<>> /\ quitSnap[1].current_screen = "Pomodoro") =>
        /\ (lastEvent = "q" =>
                app = [quitSnap[1] EXCEPT !.is_pomodoro_running = FALSE,
                                          !.current_screen = "Quit"])
        /\ (lastEvent = "Esc" =>
                app = [quitSnap[1] EXCEPT !.is_pomodoro_running = FALSE,
                                          !.current_screen = "Main"])

C11_Witness ==
    /\ lastEvent = "Esc"
    /\ quitSnap # <<>>
    /\ quitSnap[1].current_screen = "Pomodoro"
    /\ quitSnap[1].is_pomodoro_running
    /\ app.elapsed_seconds >= 1

\* The fields check_keys never writes.
TimerFields(a) ==
    <<a.pomdoros, a.short_breaks, a.long_breaks, a.elapsed_seconds, a.current_type,
      a.pomodoro_time, a.short_break_time, a.long_break_time,
      a.short_breaks_before_long>>

\* C12: a key event, whatever the key and the screen, leaves the three
\* counters, elapsed_seconds, current_type, the three durations and
\* short_breaks_before_long unchanged.
C12_CommandFrame ==
    [][KeyStep => TimerFields(app') = TimerFields(app)]_vars

C12_Witness ==
    /\ lastEvent = "Space"
    /\ app.current_screen = "Pomodoro"
    /\ backElapsed >= 1
    /\ app.pomdoros >= 1

\* The events that have no arm for the screen s: Space on Quit, Esc on Main,
\* a key without an arm, a key release, an event that is no key event.
NoOp(ev, s) ==
    \/ Command(ev) = "none"
    \/ Command(ev) = "Space" /\ s = "Quit"
    \/ Command(ev) = "Esc" /\ s = "Main"

\* C13: an event that is a no-op for the current screen leaves every field of
\* App unchanged.
C13_NoOpCommands ==
    [][\A ev \in Events :
            Keys(ev) /\ NoOp(ev, app.current_screen) => app' = app]_vars

C13_Witness ==
    /\ lastEvent = "Space"
    /\ app.current_screen = "Quit"
    /\ app.elapsed_seconds >= 1

\* C14: the number of play_timer_sound calls equals pomdoros in every state,
\* and the tick that completes a ShortBreak or a LongBreak makes no call.
C14_CueOnFocusCompletion ==
    /\ [](cues = app.pomdoros)
    /\ [][/\ (cues' # cues => cues' = cues + 1 /\ FocusCompletes)
          /\ (app.current_type # "Pomodoro" => cues' = cues)]_vars

C14_Witness ==
    /\ cues >= 2
    /\ app.long_breaks >= 1
    /\ app.short_breaks >= 1
    /\ app.current_type = "Pomodoro"

\* A step of an audio thread: audio changes and no thread is spawned.
AudioStep == audio' # audio /\ cues' = cues

\* C15: a step of an audio thread, a panic at any of its unwraps included,
\* changes no field of App and does not move or end the loop; the loop ends
\* only with is_running false and, while it runs, polls for key events and
\* times out into ticks whatever the audio threads have done; the tick that calls play_timer_sound
\* goes on to the loop test with the new thread still at its first statement.
C15_AudioIsolation ==
    /\ [](pc = "exit" => ~app.is_running)
    /\ [](pc = "poll" => ENABLED KeyStep /\ ENABLED Timeout)
    /\ [][/\ (AudioStep => UNCHANGED <<app, pc, due, cues>>)
          /\ (cues' # cues =>
                /\ audio' = [audio EXCEPT !["stream"] = audio["stream"] + 1]
                /\ pc' = (IF app'.is_running THEN "poll" ELSE "exit"))]_vars

C15_Witness ==
    /\ audio["panicked"] >= 1
    /\ audio["done"] >= 1
    /\ audio["stream"] >= 1
    /\ lastEvent = "tick"
    /\ pc = "poll"

\* C16: a key event is handled only at the poll and is followed by the tick
\* test, never by a second key event; at the tick test, after a key event as
\* after a timeout, on_tick runs if the tick period has passed and does not run
\* if it has not; either way the loop test comes next.
C16_LoopOrdering ==
    [][/\ (KeyStep => pc = "poll" /\ pc' = "after_keys")
       /\ (pc \in {"after_keys", "after_timeout"} =>
                /\ (due => Tick)
                /\ (~due => app' = app /\ cues' = cues /\ lastEvent' = lastEvent)
                /\ pc' = (IF app'.is_running THEN "poll" ELSE "exit"))
       /\ (Tick => due)]_vars

C16_Witness ==
    /\ pc = "after_keys"
    /\ due
    /\ lastEvent = "none"
    /\ app.is_pomodoro_running
    /\ app.elapsed_seconds >= 1
    /\ app.pomdoros < MaxPomodoros

\* C17: with the loop turning, an interval of any kind that is running
\* completes unless a key event comes first (within the MaxPomodoros of a
\* run); and every change of current_type is from Pomodoro to a break or from
\* a break to Pomodoro.
C17_CycleProgress ==
    /\ \A k \in Pomodoros :
            (/\ pc = "poll"
             /\ app.is_pomodoro_running
             /\ app.current_type = k
             /\ app.pomdoros < MaxPomodoros)
                ~> (app.current_type # k \/ pc = "after_keys")
    /\ [][app'.current_type # app.current_type =>
            (app.current_type = "Pomodoro") # (app'.current_type = "Pomodoro")]_vars

C17_Witness ==
    /\ lastEvent = "tick"
    /\ app.is_pomodoro_running
    /\ app.current_type = "Pomodoro"
    /\ app.short_breaks >= 1
    /\ app.long_breaks >= 1
    /\ app.pomodoro_time >= 1

\* C18: pomdoros = short_breaks + long_breaks + b in every state, with b = 1
\* during a break and 0 during a pomodoro.
C18_CounterBookkeeping ==
    app.pomdoros = app.short_breaks + app.long_breaks
                        + (IF app.current_type = "Pomodoro" THEN 0 ELSE 1)

C18_Witness ==
    /\ app.current_type = "LongBreak"
    /\ app.long_breaks >= 1
    /\ app.short_breaks >= 1
    /\ app.elapsed_seconds >= 1

\* C19: short_breaks never exceeds short_breaks_before_long; once the two are
\* equal they stay equal, current_type is not ShortBreak, and every pomodoro
\* that completes is followed by a LongBreak.
C19_ShortBreaksCapped ==
    /\ [](/\ app.short_breaks <= app.short_breaks_before_long
          /\ (app.short_breaks = app.short_breaks_before_long
                => app.current_type # "ShortBreak"))
    /\ [][app.short_breaks = app.short_breaks_before_long =>
            /\ app'.short_breaks = app'.short_breaks_before_long
            /\ (FocusCompletes => app'.current_type = "LongBreak")]_vars

C19_Witness ==
    /\ app.short_breaks_before_long = 2
    /\ app.short_breaks = 2
    /\ app.current_type = "LongBreak"
    /\ app.long_breaks >= 1

\* The configured duration of the current kind of interval.
Duration(a) ==
    CASE a.current_type = "Pomodoro" -> a.pomodoro_time
      [] a.current_type = "ShortBreak" -> a.short_break_time
      [] a.current_type = "LongBreak" -> a.long_break_time

Positive(a) == a.pomodoro_time >= 1 /\ a.short_break_time >= 1 /\ a.long_break_time >= 1

\* C20: when the three durations are at least 1, elapsed_seconds is below the
\* duration of the current kind in every state, and a tick taken with
\* is_pomodoro_running false changes no field of App and calls no
\* play_timer_sound.
C20_PauseFreezes ==
    /\ [](Positive(app) => app.elapsed_seconds < Duration(app))
    /\ [][Tick /\ Positive(app) /\ ~app.is_pomodoro_running
            => app' = app /\ cues' = cues /\ audio' = audio]_vars

C20_Witness ==
    /\ lastEvent = "tick"
    /\ Positive(app)
    /\ ~app.is_pomodoro_running
    /\ app.current_screen = "Quit"
    /\ app.elapsed_seconds >= 1

TypeOK ==
    /\ app.current_screen \in Screens
    /\ app.current_type \in Pomodoros
    /\ pc \in {"poll", "after_keys", "after_timeout", "exit"}
    /\ cues \in 0..MaxPomodoros

=============================================================================
